---- MODULE Spec2Model ----
(***************************************************************************)
(* Model of the Taidacent RS-485 soil sensor driver:                       *)
(*   rs485.py   RS485Communication  (the transport session)                *)
(*   sensor.py  TaidacentSoilSensor (the Modbus frame codec and the reads) *)
(*                                                                         *)
(* A byte is an integer in 0..255 and a bytes object a sequence of bytes.  *)
(* Python's None is modelled per type: NoPort for a port name, 0 for the   *)
(* serial_conn reference, NoTimeout for a timeout, and a record of kind   *)
(* "none" for an Optional return value.                                   *)
(***************************************************************************)
EXTENDS Integers, Sequences, FiniteSets, TLC

VARIABLES
    device_id,        \* TaidacentSoilSensor.device_id
    port,             \* RS485Communication.port (a tuple of characters)
    baudrate,         \* RS485Communication.baudrate
    timeout,          \* RS485Communication.timeout
    system,           \* RS485Communication.system
    serial_conn,      \* RS485Communication.serial_conn: 0 (None) or an index of handles
    is_connected,     \* RS485Communication.is_connected
    handles,          \* every serial.Serial object the session created, in order
    available_ports,  \* what serial.tools.list_ports.comports() enumerates
    op,               \* the name of the last call
    args,             \* its arguments
    io,               \* the channel I/O it performed, in order
    ret,              \* what the transport call returned (to the caller or to the sensor)
    result,           \* what the sensor call returned
    callers           \* per calling thread: its position in send_and_receive

vars == <<device_id, port, baudrate, timeout, system, serial_conn, is_connected,
          handles, available_ports, op, args, io, ret, result, callers>>

session == <<port, baudrate, timeout, system, serial_conn, is_connected, handles,
             available_ports>>

-----------------------------------------------------------------------------
(* Bounds of the model *)

\* the session creates at most this many serial.Serial objects
MaxHandles == 2
\* calculate_crc16 is applied to byte sequences of at most this length
MaxCrcLen == 2

-----------------------------------------------------------------------------
(* Bytes and 16-bit words *)

Min(a, b) == IF a <= b THEN a ELSE b

RECURSIVE Xor(_, _)
\* Python's a ^ b on non-negative integers: every bit of both operands, with
\* no width at which the result is cut
Xor(a, b) ==
    IF a = 0 /\ b = 0 THEN 0
    ELSE ((a + b) % 2) + 2 * Xor(a \div 2, b \div 2)

\* struct.pack('<H', x)
PackHLittle(x) == <<x % 256, x \div 256>>
\* struct.pack('>H', x): two bytes, high byte first
PackH(x) == <<x \div 256, x % 256>>

\* struct.unpack('<H', b)[0]
UnpackHLittle(hi, lo) == 256 * lo + hi
\* struct.unpack('>H', b)[0] over the two bytes hi, lo
UnpackH(hi, lo) == 256 * hi + lo

\* Python's slice s[a:b] (0-based, end exclusive, clipped to the length)
Slice(s, a, b) == SubSeq(s, a + 1, Min(b, Len(s)))

-----------------------------------------------------------------------------
(* sensor.py: the frame codec *)

RECURSIVE CrcShift(_, _)
\* the inner loop "for _ in range(8)": n more rounds on the accumulator
CrcShift(crc, n) ==
    IF n = 0 THEN crc
    ELSE IF crc % 2 = 1
         THEN CrcShift(Xor(crc \div 2, 40961), n - 1)
         ELSE CrcShift(crc \div 2, n - 1)

\* one iteration of "for byte in data"
CrcByte(crc, byte) == CrcShift(Xor(crc, byte), 8)

RECURSIVE CrcAcc(_, _)
\* the accumulator after the first k bytes of data
CrcAcc(data, k) ==
    IF k = 0 THEN 65535 ELSE CrcByte(CrcAcc(data, k - 1), data[k])

\* the two bytes emitted high byte first
CrcBytesSwapped(crc) == <<crc \div 256, crc % 256>>
\* "return bytes([crc & 0xFF, crc >> 8])"
CrcBytes(crc) == <<crc % 256, crc \div 256>>

\* calculate_crc16 complementing the accumulator before emitting it
CalculateCrc16Complemented(data) == CrcBytes(65535 - CrcAcc(data, Len(data)))
calculate_crc16(data) == CrcBytes(CrcAcc(data, Len(data)))

\* create_command appending the CRC high byte first
CreateCommandCrcSwapped(dev, function_code, register_address, register_count) ==
    LET cmd == <<dev, function_code>> \o PackH(register_address) \o PackH(register_count)
    IN  cmd \o CrcBytesSwapped(CrcAcc(cmd, Len(cmd)))
create_command(dev, function_code, register_address, register_count) ==
    LET cmd == <<dev, function_code>> \o PackH(register_address) \o PackH(register_count)
    IN  cmd \o calculate_crc16(cmd)

\* the pre-built request frames
CMD_READ_N     == <<1, 3, 0, 30, 0, 1, 228, 12>>
CMD_READ_P     == <<1, 3, 0, 31, 0, 1, 181, 204>>
CMD_READ_K     == <<1, 3, 0, 32, 0, 1, 133, 192>>
CMD_READ_NPK   == <<1, 3, 0, 30, 0, 3, 101, 205>>
CMD_READ_EC_PH == <<1, 3, 0, 0, 0, 4, 68, 9>>
CMD_READ_EC    == <<1, 3, 0, 2, 0, 1, 37, 202>>
CMD_READ_PH    == <<1, 3, 0, 3, 0, 1, 116, 10>>

-----------------------------------------------------------------------------
(* Values of the model *)

NoPort == <<>>
NoTimeout == -1
\* size=None of read_response: read whatever is buffered
SizeNone == -1

COM3    == <<"C", "O", "M", "3">>
ttyUSB0 == <<"/", "d", "e", "v", "/", "t", "t", "y", "U", "S", "B", "0">>
ttyACM0 == <<"/", "d", "e", "v", "/", "t", "t", "y", "A", "C", "M", "0">>
ttyAMA0 == <<"/", "d", "e", "v", "/", "t", "t", "y", "A", "M", "A", "0">>
ttyS0   == <<"/", "d", "e", "v", "/", "t", "t", "y", "S", "0">>
COM4    == <<"C", "O", "M", "4">>

\* Python's "sub in s" on strings
Contains(sub, s) ==
    \E i \in 0..(Len(s) - Len(sub)) : SubSeq(s, i + 1, i + Len(sub)) = sub

\* Optional[bytes] / bool / None as returned by the transport calls
RetNone     == [kind |-> "none",  b |-> FALSE, bytes |-> <<>>]
RetBool(b)  == [kind |-> "bool",  b |-> b,     bytes |-> <<>>]
RetBytes(x) == [kind |-> "bytes", b |-> FALSE, bytes |-> x]

\* Python truthiness of an Optional[bytes]: "if response"
Truthy(r) == r.kind = "bytes" /\ Len(r.bytes) > 0

\* a channel I/O event of a call
WriteEvent(h, data)      == [kind |-> "write", handle |-> h, size |-> Len(data),
                             data |-> data, raised |-> FALSE]
ReadEvent(h, size, data) == [kind |-> "read", handle |-> h, size |-> size,
                             data |-> data, raised |-> FALSE]
CloseEvent(h)            == [kind |-> "close", handle |-> h, size |-> 0,
                             data |-> <<>>, raised |-> FALSE]
Raised(ev)               == [ev EXCEPT !.raised = TRUE]
\* a call of serial.Serial(...): channel holds the keyword arguments it was
\* given, handle is the object it returned (0 if it raised)
OpenEvent(h, channel)    == [kind |-> "open", handle |-> h, size |-> 0,
                             data |-> <<>>, raised |-> FALSE, channel |-> channel]

-----------------------------------------------------------------------------
(* rs485.py: the transport session, as operators over a session record     *)
(* s = [port, baudrate, timeout, system, serial_conn, is_connected,        *)
(*      handles]                                                           *)

\* serial.Serial(port, baudrate, bytesize=8, parity='N', stopbits=1, timeout)
\* that succeeded: pyserial opens the port in the constructor
SerialDefaultBaud(p, b, t) ==
    [is_open |-> TRUE, port |-> p, baudrate |-> 9600, bytesize |-> 8,
     parity |-> "N", stopbits |-> 1, timeout |-> t]
Serial(p, b, t) ==
    [is_open |-> TRUE, port |-> p, baudrate |-> b, bytesize |-> 8,
     parity |-> "N", stopbits |-> 1, timeout |-> t]

\* the guard at the top of connect: "if not self.port"
PortMissing(s) == s.port = NoPort

\* After "self.serial_conn = serial.Serial(...)" the previous object, if any,
\* has lost its only reference.  Whether the runtime finalises (and so closes)
\* it is not decided by the program: fin is the runtime's choice.
DropReference(hs, old, fin) ==
    IF old # 0 /\ fin THEN [hs EXCEPT ![old].is_open = FALSE] ELSE hs

\* connect() without "self.is_connected = True"
ConnectAcquireNoFlag(s, fin) ==
    LET h  == Serial(s.port, s.baudrate, s.timeout)
        hs == Append(DropReference(s.handles, s.serial_conn, fin), h)
    IN  [s |-> [s EXCEPT !.handles = hs, !.serial_conn = Len(hs)],
         ret |-> RetBool(h.is_open),
         io |-> <<OpenEvent(Len(hs), h)>>]
\* lines 119-135: the new object replaces serial_conn, then is_open decides
ConnectAcquire(s, fin) ==
    LET h  == Serial(s.port, s.baudrate, s.timeout)
        hs == Append(DropReference(s.handles, s.serial_conn, fin), h)
    IN  [s |-> [s EXCEPT !.handles = hs, !.serial_conn = Len(hs),
                          !.is_connected = h.is_open],
         ret |-> RetBool(h.is_open),
         io |-> <<OpenEvent(Len(hs), h)>>]

\* lines 137-140: serial.Serial raised
ConnectRaised(s) ==
    [s |-> [s EXCEPT !.is_connected = FALSE], ret |-> RetBool(FALSE),
     io |-> <<Raised(OpenEvent(0, [Serial(s.port, s.baudrate, s.timeout)
                                      EXCEPT !.is_open = FALSE]))>>]

\* connect(): outcome is what serial.Serial does, "open" or "raise"
connect(s, outcome, fin) ==
    IF PortMissing(s) THEN [s |-> s, ret |-> RetBool(FALSE), io |-> <<>>]
    ELSE IF outcome = "open" THEN ConnectAcquire(s, fin)
    ELSE ConnectRaised(s)

\* Windows opens a COM port exclusively: while one of the session's objects
\* holds the port open, another serial.Serial on it raises
PortBusy(s) ==
    s.system = "Windows" /\ \E i \in DOMAIN s.handles : s.handles[i].is_open

\* the guard of disconnect: "if self.serial_conn and self.serial_conn.is_open"
HoldsOpen(s) == s.serial_conn # 0 /\ s.handles[s.serial_conn].is_open

\* disconnect() without "self.is_connected = False"
DisconnectKeepsFlag(s) ==
    IF HoldsOpen(s)
    THEN [s  |-> [s EXCEPT !.handles[s.serial_conn].is_open = FALSE],
          io |-> <<CloseEvent(s.serial_conn)>>]
    ELSE [s |-> s, io |-> <<>>]
\* disconnect(): the session afterwards and the close() it issued, if any
disconnect(s) ==
    IF HoldsOpen(s)
    THEN [s  |-> [s EXCEPT !.handles[s.serial_conn].is_open = FALSE,
                           !.is_connected = FALSE],
          io |-> <<CloseEvent(s.serial_conn)>>]
    ELSE [s |-> s, io |-> <<>>]

\* detect_port(): the first enumerated port matching the platform's names
Matches(sys, name) ==
    IF sys = "Windows"
    THEN Contains(<<"C", "O", "M">>, name)
    ELSE \/ Contains(<<"t", "t", "y", "U", "S", "B">>, name)
         \/ Contains(<<"t", "t", "y", "A", "M", "A">>, name)
         \/ Contains(<<"t", "t", "y", "S">>, name)

\* the loop without its "break": the last matching port stays in self.port
LastMatch(sys, avail) ==
    LET idx == {i \in 1..Len(avail) : Matches(sys, avail[i])}
    IN  IF idx = {} THEN NoPort
        ELSE avail[CHOOSE i \in idx : \A j \in idx : i >= j]
FirstMatch(sys, avail) ==
    LET idx == {i \in 1..Len(avail) : Matches(sys, avail[i])}
    IN  IF idx = {} THEN NoPort
        ELSE avail[CHOOSE i \in idx : \A j \in idx : i <= j]

detect_port(s, avail, outcome) ==
    IF Len(avail) = 0 THEN [s |-> s, io |-> <<>>]
    ELSE LET found == FirstMatch(s.system, avail)
             s1    == IF found # NoPort THEN [s EXCEPT !.port = found] ELSE s
             c     == connect(s1, outcome, FALSE)
         IN  IF s1.port # NoPort THEN [s |-> c.s, io |-> c.io]
             ELSE [s |-> s1, io |-> <<>>]

\* RS485Communication.__init__: the session constructed and the calls of
\* serial.Serial made on the way
NewSession(p, b, t, sys, avail, outcome) ==
    LET s0 == [port |-> p, baudrate |-> b, timeout |-> t, system |-> sys,
               serial_conn |-> 0, is_connected |-> FALSE, handles |-> <<>>]
        c  == connect(s0, outcome, FALSE)
    IN  IF p = NoPort THEN detect_port(s0, avail, outcome)
        ELSE [s |-> c.s, io |-> c.io]

\* a guard that looks at serial_conn alone
GuardOnHandleOnly(s) == s.serial_conn # 0
\* the guard of send_command and read_response:
\* "if not self.is_connected or not self.serial_conn" is the negation
Connected(s) == s.is_connected /\ s.serial_conn # 0

\* whether serial_conn.write(command) succeeds: e.write is the channel's
\* answer, and pyserial raises on a port that is not open
WriteOk(s, e) == e.write = "ok" /\ s.handles[s.serial_conn].is_open
ReadOk(s, e)  == e.read = "ok" /\ s.handles[s.serial_conn].is_open

\* send_command(command): the I/O performed and the value returned
send_command(s, command, e) ==
    IF ~Connected(s) THEN [io |-> <<>>, ret |-> RetBool(FALSE)]
    ELSE IF WriteOk(s, e)
         THEN [io |-> <<WriteEvent(s.serial_conn, command)>>, ret |-> RetBool(TRUE)]
         ELSE [io |-> <<Raised(WriteEvent(s.serial_conn, command))>>,
               ret |-> RetBool(FALSE)]

\* serial_conn.read(size): up to size of the bytes that arrive before the timeout
SerialRead(arrived, size) == Slice(arrived, 0, size)

\* "return response or None"
ReadReturnOrNone(size, data) == IF Len(data) = 0 THEN RetNone ELSE RetBytes(data)
\* "return response": whatever was read, short or empty included
ReadReturn(size, data) == RetBytes(data)

\* a read_response that marks the session disconnected once a read fails or
\* gives nothing
ReadResponseClosing(s, size, tmo, e) ==
    IF ~Connected(s) THEN [s |-> s, io |-> <<>>, ret |-> RetNone]
    ELSE IF ReadOk(s, e) /\ Len(e.arrived) > 0
         THEN [s |-> s, io |-> <<ReadEvent(s.serial_conn, size, SerialRead(e.arrived, size))>>,
               ret |-> RetBytes(SerialRead(e.arrived, size))]
         ELSE [s |-> [s EXCEPT !.is_connected = FALSE],
               io |-> <<Raised(ReadEvent(s.serial_conn, size, <<>>))>>, ret |-> RetNone]
\* read_response(size, timeout): e.arrived is what the line delivers to the
\* first read, e.arrived2 to the second read_all of the size=None path
read_response(s, size, tmo, e) ==
    IF ~Connected(s) THEN [s |-> s, io |-> <<>>, ret |-> RetNone]
    ELSE
      LET c        == s.serial_conn
          original == IF tmo # NoTimeout THEN s.handles[c].timeout ELSE NoTimeout
          s1       == IF tmo # NoTimeout
                      THEN [s EXCEPT !.handles[c].timeout = tmo] ELSE s
          restored == IF original # NoTimeout
                      THEN [s1 EXCEPT !.handles[c].timeout = original] ELSE s1
      IN  IF ~ReadOk(s, e)
          THEN [s |-> s1, io |-> <<Raised(ReadEvent(c, size, <<>>))>>, ret |-> RetNone]
          ELSE IF size # SizeNone
          THEN LET data == SerialRead(e.arrived, size)
               IN  [s |-> restored, io |-> <<ReadEvent(c, size, data)>>,
                    ret |-> ReadReturn(size, data)]
          ELSE IF Len(e.arrived) > 0
          THEN [s |-> restored, io |-> <<ReadEvent(c, SizeNone, e.arrived)>>,
                ret |-> RetBytes(e.arrived)]
          ELSE [s |-> restored,
                io |-> <<ReadEvent(c, SizeNone, <<>>), ReadEvent(c, SizeNone, e.arrived2)>>,
                ret |-> RetBytes(e.arrived2)]

\* send_and_receive reading whatever send_command returned
SendAndReceiveUnchecked(s, command, size, tmo, e) ==
    LET sent == send_command(s, command, e)
        rcv  == read_response(s, size, tmo, e)
    IN  [s |-> rcv.s, io |-> sent.io \o rcv.io, ret |-> rcv.ret]
\* send_and_receive(command, response_size, timeout)
send_and_receive(s, command, size, tmo, e) ==
    LET sent == send_command(s, command, e)
    IN  IF sent.ret.b
        THEN LET rcv == read_response(s, size, tmo, e)
             IN  [s |-> rcv.s, io |-> sent.io \o rcv.io, ret |-> rcv.ret]
        ELSE [s |-> s, io |-> sent.io, ret |-> RetNone]

-----------------------------------------------------------------------------
(* sensor.py: the read operations *)

\* Optional[int] / Optional[float]: num / den, or None
NoneVal        == [some |-> FALSE, num |-> 0, den |-> 1]
IntVal(v)      == [some |-> TRUE, num |-> v, den |-> 1]
\* ph_raw taken as it is, without "/ 10.0"
DecValUnscaled(v, den) == [some |-> TRUE, num |-> v, den |-> 1]
\* ph_raw / 10.0
DecVal(v, den) == [some |-> TRUE, num |-> v, den |-> den]

\* the acceptance test without "response[0] == self.device_id"
AcceptsAnyDevice(r, n, dev) ==
    /\ Truthy(r)
    /\ Len(r.bytes) >= n
    /\ r.bytes[2] = 3
\* the acceptance test with a check of the CRC in the last two of the n bytes
AcceptsWithCrc(r, n, dev) ==
    /\ Truthy(r)
    /\ Len(r.bytes) >= n
    /\ r.bytes[1] = dev
    /\ r.bytes[2] = 3
    /\ calculate_crc16(SubSeq(r.bytes, 1, n - 2)) = SubSeq(r.bytes, n - 1, n)
\* "if response and len(response) >= n and response[0] == self.device_id
\*  and response[1] == 0x03"
Accepts(r, n, dev) ==
    /\ Truthy(r)
    /\ Len(r.bytes) >= n
    /\ r.bytes[1] = dev
    /\ r.bytes[2] = 3

\* struct.unpack('>H', response[a:a+2]) needs two bytes; on a shorter slice it
\* raises struct.error, which the read's "except Exception" turns into None
Unpackable(bytes, a) == Len(bytes) >= a + 2

\* struct.unpack('>H', response[a:a+2])[0], a 0-based
Word(bytes, a) == UnpackH(bytes[a + 1], bytes[a + 2])

\* the expected response lengths
SingleSize == 7
NpkSize    == 11
EcPhSize   == 13

\* read_nitrogen, read_phosphorus, read_potassium, read_ec: the value returned
\* for the transport's answer x
SingleValue(x, dev) ==
    IF Accepts(x, SingleSize, dev) /\ Unpackable(x.bytes, 3)
    THEN IntVal(Word(x.bytes, 3)) ELSE NoneVal

\* read_ph
PhValue(x, dev) ==
    IF Accepts(x, SingleSize, dev) /\ Unpackable(x.bytes, 3)
    THEN DecVal(Word(x.bytes, 3), 10) ELSE NoneVal

\* read_npk storing each field as soon as it is unpacked, potassium unpacked
\* from response[10:12], and the except branch returning what was stored
NpkValuePartial(x, dev) ==
    IF Accepts(x, NpkSize, dev) /\ Unpackable(x.bytes, 5)
    THEN [nitrogen   |-> IntVal(Word(x.bytes, 3)),
          phosphorus |-> IntVal(Word(x.bytes, 5)),
          potassium  |-> IF Unpackable(x.bytes, 10)
                         THEN IntVal(Word(x.bytes, 10)) ELSE NoneVal]
    ELSE [nitrogen |-> NoneVal, phosphorus |-> NoneVal, potassium |-> NoneVal]
\* read_npk with the slices of phosphorus and potassium exchanged
NpkValueSwapped(x, dev) ==
    IF Accepts(x, NpkSize, dev) /\ Unpackable(x.bytes, 7)
    THEN [nitrogen   |-> IntVal(Word(x.bytes, 3)),
          phosphorus |-> IntVal(Word(x.bytes, 7)),
          potassium  |-> IntVal(Word(x.bytes, 5))]
    ELSE [nitrogen |-> NoneVal, phosphorus |-> NoneVal, potassium |-> NoneVal]
\* read_npk
NpkValue(x, dev) ==
    IF Accepts(x, NpkSize, dev) /\ Unpackable(x.bytes, 7)
    THEN [nitrogen   |-> IntVal(Word(x.bytes, 3)),
          phosphorus |-> IntVal(Word(x.bytes, 5)),
          potassium  |-> IntVal(Word(x.bytes, 7))]
    ELSE [nitrogen |-> NoneVal, phosphorus |-> NoneVal, potassium |-> NoneVal]

\* read_ec_ph decoding the two leading words (response[3:5], response[5:7])
EcPhValueLeading(x, dev) ==
    IF Accepts(x, EcPhSize, dev) /\ Unpackable(x.bytes, 9)
    THEN [ec |-> IntVal(Word(x.bytes, 3)), ph |-> DecVal(Word(x.bytes, 5), 10)]
    ELSE [ec |-> NoneVal, ph |-> NoneVal]
\* read_ec_ph
EcPhValue(x, dev) ==
    IF Accepts(x, EcPhSize, dev) /\ Unpackable(x.bytes, 9)
    THEN [ec |-> IntVal(Word(x.bytes, 7)), ph |-> DecVal(Word(x.bytes, 9), 10)]
    ELSE [ec |-> NoneVal, ph |-> NoneVal]

\* {**a, **b}: the keys of both, b's value where both have the key
Merge(a, b) ==
    [k \in DOMAIN a \cup DOMAIN b |-> IF k \in DOMAIN b THEN b[k] ELSE a[k]]

\* read_all that gives up after a failed NPK exchange
ReadAllUntilFailure(s, dev, cmds, e1, e2) ==
    LET x1  == send_and_receive(s, cmds[1], NpkSize, NoTimeout, e1)
        npk == NpkValue(x1.ret, dev)
        x2  == send_and_receive(x1.s, cmds[2], EcPhSize, NoTimeout, e2)
    IN  IF npk.nitrogen.some
        THEN [s |-> x2.s, io |-> x1.io \o x2.io, ret |-> x2.ret,
              result |-> Merge(npk, EcPhValue(x2.ret, dev))]
        ELSE [s |-> x1.s, io |-> x1.io, ret |-> x1.ret, result |-> npk]
\* read_all: read_npk() with the channel behaving as e1, then read_ec_ph()
\* with the channel behaving as e2; cmds are the two request frames
ReadAllValue(s, dev, cmds, e1, e2) ==
    LET x1 == send_and_receive(s, cmds[1], NpkSize, NoTimeout, e1)
        x2 == send_and_receive(x1.s, cmds[2], EcPhSize, NoTimeout, e2)
    IN  [s |-> x2.s, io |-> x1.io \o x2.io, ret |-> x2.ret,
         result |-> Merge(NpkValue(x1.ret, dev), EcPhValue(x2.ret, dev))]

-----------------------------------------------------------------------------
(* Inputs of the model *)

DefaultBaudrate == 9600
DefaultTimeout  == 1
DefaultDeviceId == 1

\* the device ids a sensor is configured with
DeviceIds == {0, 1, 2, 255}

\* a device id other than dev
OtherId(dev) == (dev + 1) % 256

\* the environments a session is constructed in: platform, enumerated ports
\* and the port argument (NoPort: auto-detection)
ExplicitEnv ==
    [system |-> "Linux", available_ports |-> <<>>, port |-> ttyUSB0,
     baudrate |-> DefaultBaudrate, timeout |-> DefaultTimeout]
InitEnvs ==
    { ExplicitEnv,
      [system |-> "Linux",   available_ports |-> <<ttyACM0>>,       port |-> NoPort,
       baudrate |-> DefaultBaudrate, timeout |-> DefaultTimeout],
      [system |-> "Windows", available_ports |-> <<ttyACM0, COM3>>, port |-> NoPort,
       baudrate |-> DefaultBaudrate, timeout |-> DefaultTimeout] }

\* sessions created with no port: what the platform enumerates
Discovery(sys, avail) ==
    [system |-> sys, available_ports |-> avail, port |-> NoPort,
     baudrate |-> DefaultBaudrate, timeout |-> DefaultTimeout]
DiscoveryEnvs ==
    { Discovery("Linux", <<>>),
      Discovery("Linux", <<ttyACM0, ttyS0, ttyUSB0>>),
      Discovery("Linux", <<COM3, ttyAMA0>>),
      Discovery("Windows", <<COM4, COM3>>),
      Discovery("Windows", <<ttyUSB0, ttyS0>>) }

\* a session given its port, baud rate and timeout, none of them a default
ConfiguredEnv ==
    [system |-> "Windows", available_ports |-> <<COM3>>, port |-> COM3,
     baudrate |-> 4800, timeout |-> 3]

\* a response frame as the device lays it out
Frame(b0, b1, b2, data, crc) == <<b0, b1, b2>> \o data \o crc

TailA == <<185, 175>>
TailB == <<0, 0>>

\* register values carried by the replies
SingleWords == {68, 100, 250, 1000, 65535}
GroupWords  == {100, 1000}

\* the data bytes of a reply to a read of k registers
Data(k) ==
    CASE k = 1 -> {PackH(w) : w \in SingleWords}
      [] k = 3 -> {PackH(a) \o PackH(b) \o PackH(c) : a, b, c \in GroupWords}
      [] k = 4 -> {PackH(a) \o PackH(b) \o PackH(c) \o PackH(d) :
                       a, b, c, d \in GroupWords}

Data0(k) == CHOOSE d \in Data(k) : TRUE

\* what may arrive on the line before the timeout after a read of k registers
\* was requested from device dev: well-formed replies, replies with one field
\* off, truncated and overlong replies, a Modbus exception reply, and silence
Replies(dev, k) ==
    LET good == Frame(dev, 3, 2 * k, Data0(k), TailA)
    IN       {Frame(b0, 3, 2 * k, d, TailA) : b0 \in {dev, OtherId(dev)}, d \in Data(k)}
        \cup {Frame(dev, 3, 2 * k, d, TailB) : d \in Data(k)}
        \cup {Frame(dev, 131, 2 * k, Data0(k), TailA),
              Frame(dev, 3, 2 * k + 1, Data0(k), TailA),
              Frame(dev, 3, 0, Data0(k), TailA)}
        \cup {SubSeq(good, 1, Len(good) - 1),
              <<dev, 131, 2, 192, 241>>,
              <<>>,
              good \o <<0>>}

\* the replies tried in each of the two exchanges of read_all: a well-formed
\* one, one from another device, and silence
ReadAllReplies(dev, k) ==
    {Frame(dev, 3, 2 * k, Data0(k), TailA),
     Frame(OtherId(dev), 3, 2 * k, Data0(k), TailA),
     <<>>}

\* what the channel does during one exchange
Env(w, r, a, a2) == [write |-> w, read |-> r, arrived |-> a, arrived2 |-> a2]
DefaultEnv == Env("ok", "ok", <<>>, <<>>)

\* the channel is consulted only by a call that passes the connection guard
Envs(s, replies) ==
    IF Connected(s)
    THEN      {Env("raise", "ok", <<>>, <<>>), Env("ok", "raise", <<>>, <<>>)}
         \cup {Env("ok", "ok", a, <<>>) : a \in replies}
    ELSE {DefaultEnv}

\* commands and replies of the direct transport calls
Commands == {CMD_READ_N, <<1, 3, 0, 0, 0, 1, 132, 10>>}
TransportReplies ==
    {<<>>, <<1, 3, 2, 0, 100, 185, 175>>, <<1, 3, 2, 0>>,
     <<1, 3, 2, 0, 100, 185, 175, 1, 3>>}

\* what a thread's read may be given
ConcurrentReplies == {<<>>, <<1, 3, 2, 0, 100, 185, 175>>}

\* the register table: start address and register count of each read
RegisterOf(name) ==
    CASE name = "read_nitrogen"   -> [address |-> 30, count |-> 1]
      [] name = "read_phosphorus" -> [address |-> 31, count |-> 1]
      [] name = "read_potassium"  -> [address |-> 32, count |-> 1]
      [] name = "read_npk"        -> [address |-> 30, count |-> 3]
      [] name = "read_ec"         -> [address |-> 2,  count |-> 1]
      [] name = "read_ph"         -> [address |-> 3,  count |-> 1]
      [] name = "read_ec_ph"      -> [address |-> 0,  count |-> 4]

ReadNames ==
    {"read_nitrogen", "read_phosphorus", "read_potassium", "read_npk",
     "read_ec", "read_ph", "read_ec_ph"}

\* the request frame each read sends
CmdOf(name) ==
    CASE name = "read_nitrogen"   -> CMD_READ_N
      [] name = "read_phosphorus" -> CMD_READ_P
      [] name = "read_potassium"  -> CMD_READ_K
      [] name = "read_npk"        -> CMD_READ_NPK
      [] name = "read_ec"         -> CMD_READ_EC
      [] name = "read_ph"         -> CMD_READ_PH
      [] name = "read_ec_ph"      -> CMD_READ_EC_PH

\* every read expecting the length of a single-register response
SizeOfSingle(name) == SingleSize
\* the expected response length each read passes and checks
SizeOf(name) ==
    CASE name = "read_npk"   -> NpkSize
      [] name = "read_ec_ph" -> EcPhSize
      [] OTHER               -> SingleSize

\* arguments of create_command: the ends of the function code range and the
\* two codes the source names, the register table and the ends of the
\* address and count ranges
FunctionCodes == {0, 3, 6, 255}
RegisterArgs ==
    {RegisterOf(n) : n \in ReadNames}
        \cup {[address |-> 0, count |-> 0], [address |-> 256, count |-> 2],
              [address |-> 65535, count |-> 65535]}

\* arguments of calculate_crc16: every sequence over CrcAlphabet of at most
\* MaxCrcLen bytes, and the first six bytes of the request frames
CrcAlphabet == {0, 1, 255}
CrcInputs ==
    UNION {[1..n -> CrcAlphabet] : n \in 0..MaxCrcLen}
        \cup {SubSeq(CmdOf(n), 1, 6) : n \in ReadNames}

-----------------------------------------------------------------------------
(* The state machine *)

Sess ==
    [port |-> port, baudrate |-> baudrate, timeout |-> timeout, system |-> system,
     serial_conn |-> serial_conn, is_connected |-> is_connected, handles |-> handles]

SessionBecomes(s) ==
    /\ port' = s.port
    /\ baudrate' = s.baudrate
    /\ timeout' = s.timeout
    /\ system' = s.system
    /\ serial_conn' = s.serial_conn
    /\ is_connected' = s.is_connected
    /\ handles' = s.handles
    /\ UNCHANGED <<available_ports, device_id>>

\* the threads that call into one session
Callers == {1, 2}

\* a thread outside send_and_receive
Idle == [at |-> "idle", command |-> <<>>, ret |-> RetNone]

\* a call made by the program's single thread: no other call is in progress
SetSession(s) == SessionBecomes(s) /\ UNCHANGED callers

NoArgs ==
    [command |-> <<>>, size |-> SizeNone, timeout |-> NoTimeout,
     write |-> "ok", read |-> "ok", arrived |-> <<>>, arrived2 |-> <<>>,
     outcome |-> "none", fin |-> FALSE, port |-> NoPort,
     function_code |-> 0, register_address |-> 0, register_count |-> 0]

CallArgs(command, size, tmo, e) ==
    [NoArgs EXCEPT !.command = command, !.size = size, !.timeout = tmo,
                   !.write = e.write, !.read = e.read,
                   !.arrived = e.arrived, !.arrived2 = e.arrived2]

NoResult == [unset |-> TRUE]

\* TaidacentSoilSensor.__init__ and, in it, RS485Communication.__init__, for a
\* device id of devs in an environment of envs
Constructed(devs, envs) ==
    \E d \in devs, env \in envs, outcome \in {"open", "raise"} :
        LET n == NewSession(env.port, env.baudrate, env.timeout, env.system,
                            env.available_ports, outcome)
            s == n.s
        IN  /\ device_id = d
            /\ port = s.port
            /\ baudrate = s.baudrate
            /\ timeout = s.timeout
            /\ system = s.system
            /\ serial_conn = s.serial_conn
            /\ is_connected = s.is_connected
            /\ handles = s.handles
            /\ available_ports = env.available_ports
            /\ op = "init"
            /\ args = [NoArgs EXCEPT
                         !.outcome = IF s.port = NoPort THEN "none" ELSE outcome,
                         !.port = env.port]
            /\ io = n.io
            /\ ret = RetNone
            /\ result = NoResult
            /\ callers = [c \in Callers |-> Idle]

Connect ==
    \E outcome \in {"open", "raise"}, fin \in BOOLEAN :
        /\ ~PortMissing(Sess) \/ (outcome = "raise" /\ ~fin)
        /\ outcome = "open" => Len(handles) < MaxHandles
        /\ outcome = "open" => ~PortBusy(Sess)
        /\ fin => (outcome = "open" /\ HoldsOpen(Sess))
        /\ LET r == connect(Sess, outcome, fin)
           IN  /\ SetSession(r.s)
               /\ op' = "connect"
               /\ args' = [NoArgs EXCEPT
                             !.outcome = IF PortMissing(Sess) THEN "none" ELSE outcome,
                             !.fin = fin]
               /\ io' = r.io
               /\ ret' = r.ret
               /\ result' = NoResult

Disconnect ==
    /\ SetSession(disconnect(Sess).s)
    /\ op' = "disconnect"
    /\ args' = NoArgs
    /\ io' = disconnect(Sess).io
    /\ ret' = RetNone
    /\ result' = NoResult

\* TaidacentSoilSensor.close
Close ==
    /\ SetSession(disconnect(Sess).s)
    /\ op' = "close"
    /\ args' = NoArgs
    /\ io' = disconnect(Sess).io
    /\ ret' = RetNone
    /\ result' = NoResult

SendCommand ==
    \E command \in Commands, e \in Envs(Sess, {<<>>}) :
        /\ e.read = "ok"
        /\ LET r == send_command(Sess, command, e)
           IN  /\ SetSession(Sess)
               /\ op' = "send_command"
               /\ args' = CallArgs(command, SizeNone, NoTimeout, e)
               /\ io' = r.io
               /\ ret' = r.ret
               /\ result' = NoResult

ReadResponse ==
    \E size \in {SizeNone, SingleSize}, tmo \in {NoTimeout, 2},
       e \in Envs(Sess, TransportReplies) :
        /\ e.write = "ok"
        /\ LET r == read_response(Sess, size, tmo, e)
           IN  /\ SetSession(r.s)
               /\ op' = "read_response"
               /\ args' = CallArgs(<<>>, size, tmo, e)
               /\ io' = r.io
               /\ ret' = r.ret
               /\ result' = NoResult

SendAndReceive ==
    \E command \in Commands, size \in {SizeNone, SingleSize}, tmo \in {NoTimeout, 2},
       e \in Envs(Sess, TransportReplies) :
        LET r == send_and_receive(Sess, command, size, tmo, e)
        IN  /\ SetSession(r.s)
            /\ op' = "send_and_receive"
            /\ args' = CallArgs(command, size, tmo, e)
            /\ io' = r.io
            /\ ret' = r.ret
            /\ result' = NoResult

\* a sensor read: one exchange sending the read's frame and expecting its
\* length, k registers requested, decoded by the read's own rule
SensorRead(name, k) ==
    \E e \in Envs(Sess, Replies(device_id, k)) :
        LET x == send_and_receive(Sess, CmdOf(name), SizeOf(name), NoTimeout, e)
        IN  /\ SetSession(x.s)
            /\ op' = name
            /\ args' = CallArgs(CmdOf(name), SizeOf(name), NoTimeout, e)
            /\ io' = x.io
            /\ ret' = x.ret
            /\ result' =
                 CASE name = "read_npk"   -> NpkValue(x.ret, device_id)
                   [] name = "read_ec_ph" -> EcPhValue(x.ret, device_id)
                   [] name = "read_ph"    -> [value |-> PhValue(x.ret, device_id)]
                   [] OTHER               -> [value |-> SingleValue(x.ret, device_id)]

read_nitrogen   == SensorRead("read_nitrogen", 1)
read_phosphorus == SensorRead("read_phosphorus", 1)
read_potassium  == SensorRead("read_potassium", 1)
read_ec         == SensorRead("read_ec", 1)
read_ph         == SensorRead("read_ph", 1)
read_npk        == SensorRead("read_npk", 3)
read_ec_ph      == SensorRead("read_ec_ph", 4)

\* read_all(): args and ret are those of its second exchange
read_all ==
    \E e1 \in Envs(Sess, ReadAllReplies(device_id, 3)),
       e2 \in Envs(Sess, ReadAllReplies(device_id, 4)) :
        LET x == ReadAllValue(Sess, device_id, <<CMD_READ_NPK, CMD_READ_EC_PH>>, e1, e2)
        IN  /\ SetSession(x.s)
            /\ op' = "read_all"
            /\ args' = CallArgs(CMD_READ_EC_PH, EcPhSize, NoTimeout, e2)
            /\ io' = x.io
            /\ ret' = x.ret
            /\ result' = x.result

\* an I/O event of the calls in progress, with the thread that performed it
By(c, events) == [i \in DOMAIN events |-> [caller |-> c, ev |-> events[i]]]

\* thread c enters send_and_receive(command, 7); io restarts when no other
\* call is in progress
CallSendAndReceive(c) ==
    \E command \in Commands :
        /\ callers[c].at = "idle"
        /\ callers' = [callers EXCEPT ![c] = [at |-> "send_command",
                                               command |-> command, ret |-> RetNone]]
        /\ SessionBecomes(Sess)
        /\ op' = "send_and_receive"
        /\ args' = CallArgs(command, SingleSize, NoTimeout, DefaultEnv)
        /\ io' = IF \A d \in Callers : callers[d].at \in {"idle", "done"} THEN <<>> ELSE io
        /\ UNCHANGED <<ret, result>>

\* line 231, "if self.send_command(command)": the guard and the write
SendStep(c) ==
    \E e \in Envs(Sess, {<<>>}) :
        /\ callers[c].at = "send_command"
        /\ e.read = "ok"
        /\ LET r == send_command(Sess, callers[c].command, e)
           IN  /\ callers' = [callers EXCEPT ![c].at = IF r.ret.b THEN "sleep" ELSE "done"]
               /\ io' = io \o By(c, r.io)
               /\ ret' = IF r.ret.b THEN ret ELSE RetNone
        /\ SessionBecomes(Sess)
        /\ UNCHANGED <<op, args, result>>

\* line 233, "time.sleep(0.05)"
SettleStep(c) ==
    /\ callers[c].at = "sleep"
    /\ callers' = [callers EXCEPT ![c].at = "read_response"]
    /\ SessionBecomes(Sess)
    /\ UNCHANGED <<op, args, io, ret, result>>

\* line 234, "return self.read_response(response_size, timeout)"
ReadStep(c) ==
    \E e \in Envs(Sess, ConcurrentReplies) :
        /\ callers[c].at = "read_response"
        /\ e.write = "ok"
        /\ LET r == read_response(Sess, SingleSize, NoTimeout, e)
           IN  /\ callers' = [callers EXCEPT ![c].at = "done", ![c].ret = r.ret]
               /\ SessionBecomes(r.s)
               /\ io' = io \o By(c, r.io)
               /\ ret' = r.ret
        /\ UNCHANGED <<op, args, result>>

\* calculate_crc16(data) called on the sensor object
CalculateCrc16 ==
    \E data \in CrcInputs :
        /\ SetSession(Sess)
        /\ op' = "calculate_crc16"
        /\ args' = [NoArgs EXCEPT !.command = data]
        /\ io' = <<>>
        /\ ret' = RetBytes(calculate_crc16(data))
        /\ result' = NoResult

\* create_command(function_code, register_address, register_count)
CreateCommand ==
    \E fc \in FunctionCodes, reg \in RegisterArgs :
        /\ SetSession(Sess)
        /\ op' = "create_command"
        /\ args' = [NoArgs EXCEPT !.function_code = fc,
                                  !.register_address = reg.address,
                                  !.register_count = reg.count]
        /\ io' = <<>>
        /\ ret' = RetBytes(create_command(device_id, fc, reg.address, reg.count))
        /\ result' = NoResult

-----------------------------------------------------------------------------
(* The specifications *)

\* the transport session of a sensor with the default device id, driven
\* through RS485Communication's methods and the sensor's close()
Init == Constructed({DefaultDeviceId}, InitEnvs \cup {ConfiguredEnv})

Next ==
    \/ Connect
    \/ Disconnect
    \/ Close
    \/ SendCommand
    \/ ReadResponse
    \/ SendAndReceive

Spec == Init /\ [][Next]_vars

\* sessions created with no port on platforms enumerating different ports,
\* then connected, disconnected and written to
InitDiscovery == Constructed({DefaultDeviceId}, DiscoveryEnvs)

NextDiscovery ==
    \/ Connect
    \/ Disconnect
    \/ SendCommand

SpecDiscovery == InitDiscovery /\ [][NextDiscovery]_vars

\* TaidacentSoilSensor: the reads and close(), for every configured device id
InitSensor == Constructed(DeviceIds, InitEnvs)

NextSensor ==
    \/ read_nitrogen
    \/ read_phosphorus
    \/ read_potassium
    \/ read_ec
    \/ read_ph
    \/ read_npk
    \/ read_ec_ph
    \/ read_all
    \/ Close

SpecSensor == InitSensor /\ [][NextSensor]_vars

\* the frame codec of the sensor object: create_command and calculate_crc16
InitCodec == Constructed(DeviceIds, {ExplicitEnv})

NextCodec ==
    \/ CreateCommand
    \/ CalculateCrc16

SpecCodec == InitCodec /\ [][NextCodec]_vars

\* two threads, each calling send_and_receive once on the same session; a
\* thread runs one statement of send_and_receive at a time, and nothing in
\* rs485.py orders the statements of one thread against the other's
InitConcurrent == Constructed({DefaultDeviceId}, {ExplicitEnv, ConfiguredEnv})

NextConcurrent ==
    \E c \in Callers :
        \/ CallSendAndReceive(c)
        \/ SendStep(c)
        \/ SettleStep(c)
        \/ ReadStep(c)

SpecConcurrent == InitConcurrent /\ [][NextConcurrent]_vars

-----------------------------------------------------------------------------
(* Properties *)

\* the last call was one of the seven sensor reads
IsRead == op \in ReadNames

\* the last call put a request frame on the channel
Wrote == Len(io) >= 1 /\ io[1].kind = "write" /\ ~io[1].raised

\* the value(s) a read returned: all its fields
ResultFields ==
    CASE op = "read_npk"   -> {result.nitrogen, result.phosphorus, result.potassium}
      [] op = "read_ec_ph" -> {result.ec, result.ph}
      [] OTHER             -> {result.value}

\* the length a read expects of its response, and the registers it asks for
ExpectedLength == IF op = "read_npk" THEN 11 ELSE IF op = "read_ec_ph" THEN 13 ELSE 7
RegistersAsked == IF op = "read_npk" THEN 3 ELSE IF op = "read_ec_ph" THEN 4 ELSE 1

\* C1: the request frame a read writes carries the configured device id in
\* its first byte, the id the response's first byte is compared against.
C1_RequestCarriesDeviceId ==
    (IsRead /\ Wrote) => io[1].data[1] = device_id

\* C2: with device id 1, create_command(3, address, count) for each entry of
\* the register table is the pre-built frame the matching read sends; for
\* Nitrogen it is 01 03 00 1E 00 01 E4 0C.
C2_CreateCommandIsPrebuilt ==
    (op = "create_command" /\ device_id = 1 /\ args.function_code = 3) =>
        /\ \A n \in ReadNames :
              (/\ args.register_address = RegisterOf(n).address
               /\ args.register_count = RegisterOf(n).count)
                  => ret.bytes = CmdOf(n)
        /\ (args.register_address = 30 /\ args.register_count = 1)
              => ret.bytes = <<1, 3, 0, 30, 0, 1, 228, 12>>

C2_Witness ==
    /\ op = "create_command" /\ device_id = 1 /\ args.function_code = 3
    /\ args.register_address = 0 /\ args.register_count = 4
    /\ ret.bytes = CMD_READ_EC_PH

\* C3 as stated: calculate_crc16 of 01 03 00 1E 00 01 returns [0x0C, 0xE4],
\* in that order.
C3_CrcHighByteFirst ==
    (op = "calculate_crc16" /\ args.command = <<1, 3, 0, 30, 0, 1>>)
        => ret.bytes = <<12, 228>>

\* C3 amended: calculate_crc16 of 01 03 00 1E 00 01 returns [0xE4, 0x0C]: the
\* CRC 0x0CE4 emitted low byte first, as the frame 01 03 00 1E 00 01 E4 0C ends.
C3_CrcLowByteFirst ==
    (op = "calculate_crc16" /\ args.command = <<1, 3, 0, 30, 0, 1>>)
        => ret.bytes = <<228, 12>>

C3_Witness ==
    /\ op = "calculate_crc16" /\ args.command = <<1, 3, 0, 30, 0, 1>>
    /\ ret.bytes = SubSeq(CMD_READ_N, 7, 8)

\* the transport's answer to the last read is one the claim C4 says to reject
Rejectable ==
    \/ ret.kind # "bytes"
    \/ Len(ret.bytes) < ExpectedLength
    \/ ret.bytes[1] # device_id
    \/ ret.bytes[2] # 3

\* C4: a read whose response is missing, shorter than expected, from another
\* device id or with a function code other than 3 returns None (every field
\* None for a group), never a number.
C4_RejectedIsNone ==
    (IsRead /\ Rejectable) => \A v \in ResultFields : v = NoneVal

C4_Witness ==
    /\ op = "read_ec_ph" /\ Wrote
    /\ ret.kind = "bytes" /\ Len(ret.bytes) = 13
    /\ ret.bytes[1] # device_id /\ ret.bytes[2] = 3
    /\ result = [ec |-> NoneVal, ph |-> NoneVal]

\* C5: a read returns a decoded value only if the response's byteCount byte
\* is twice the number of registers requested.
C5_ByteCountChecked ==
    (IsRead /\ \E v \in ResultFields : v.some)
        => ret.bytes[3] = 2 * RegistersAsked

\* the last call was send_and_receive with a response size, it wrote the
\* command and read without either raising, and fewer bytes than asked for
\* arrived before the timeout
ShortExchange ==
    /\ op = "send_and_receive"
    /\ args.size # SizeNone
    /\ Len(io) = 2
    /\ io[1].kind = "write" /\ ~io[1].raised
    /\ io[2].kind = "read" /\ ~io[2].raised
    /\ Len(args.arrived) < args.size

\* C6 as stated: when fewer than response_size bytes arrive before the
\* timeout, send_and_receive yields a failure (None, or no bytes at all),
\* never the truncated bytes.
C6_ShortReadIsFailure ==
    ShortExchange => ~Truthy(ret)

\* C6 amended: when fewer than response_size bytes arrive before the timeout,
\* send_and_receive returns exactly the bytes that arrived, a sequence shorter
\* than response_size (empty if nothing arrived), and no failure.
C6_ShortReadIsReturned ==
    ShortExchange =>
        /\ ret.kind = "bytes"
        /\ ret.bytes = args.arrived
        /\ Len(ret.bytes) < args.size

C6_Witness ==
    /\ ShortExchange
    /\ args.size = 7
    /\ ret = RetBytes(<<1, 3, 2, 0>>)

\* C7: send_and_receive on a Closed session (is_connected false: never
\* opened, open failed, or disconnected) returns a failure and performs no
\* channel I/O.
C7_ClosedSessionNoIo ==
    [][(~is_connected /\ op' = "send_and_receive")
          => (ret' = RetNone /\ io' = <<>>)]_vars

\* a send_and_receive answered on a session that was opened and disconnected
C7_Witness ==
    /\ op = "send_and_receive"
    /\ ~is_connected
    /\ serial_conn # 0 /\ ~handles[serial_conn].is_open
    /\ ret = RetNone /\ io = <<>>

Closing == {"disconnect", "close"}

\* C8: disconnect() (or the sensor's close()) leaves the session Closed, and
\* called right after another disconnect/close, or on a session that never
\* held a channel, it changes nothing of the session.
C8_DisconnectIdempotent ==
    [][op' \in Closing =>
          /\ ~is_connected'
          /\ (op \in Closing \/ serial_conn = 0) =>
                (UNCHANGED session /\ io' = <<>>)]_vars

\* a disconnect/close that found the session's channel already closed
C8_Witness ==
    /\ op \in Closing
    /\ io = <<>>
    /\ serial_conn # 0 /\ ~handles[serial_conn].is_open
    /\ ~is_connected

\* C9: after disconnect() returns, no channel object the session acquired is
\* still open.
C9_AllReleasedAfterDisconnect ==
    op = "disconnect" => \A i \in DOMAIN handles : ~handles[i].is_open

\* C10: connect() on an Open session acquires no second channel object and
\* leaves the session Open on the one it held.
C10_ConnectOnOpenKeepsHandle ==
    [][(is_connected /\ op' = "connect")
          => (handles' = handles /\ serial_conn' = serial_conn /\ is_connected')]_vars

\* the last call was a sensor read and the transport's answer passed the
\* read's acceptance test
Accepted == IsRead /\ ~Rejectable

SingleReads == {"read_nitrogen", "read_phosphorus", "read_potassium", "read_ec"}

\* the big-endian word at the 0-based response offsets a, a + 1 of the answer
RawAt(a) == 256 * ret.bytes[a + 1] + ret.bytes[a + 2]

\* C11: an accepted single-register response (nitrogen, phosphorus, potassium,
\* EC) yields the integer 256*response[3] + response[4], within 0..65535; data
\* 00 64 yields 100 and data 03 E8 yields 1000.
C11_SingleValueBigEndian ==
    (op \in SingleReads /\ Accepted) =>
        /\ result.value = IntVal(RawAt(3))
        /\ result.value.num \in 0..65535
        /\ (ret.bytes[4] = 0 /\ ret.bytes[5] = 100) => result.value.num = 100
        /\ (ret.bytes[4] = 3 /\ ret.bytes[5] = 232) => result.value.num = 1000

C11_Witness ==
    /\ op = "read_ec" /\ Accepted
    /\ ret.bytes[4] = 3 /\ ret.bytes[5] = 232
    /\ result.value = IntVal(1000)

\* the pH a read returned
PhField == IF op = "read_ph" THEN result.value ELSE result.ph
PhRaw   == IF op = "read_ph" THEN RawAt(3) ELSE RawAt(9)

\* C12: an accepted pH response (read_ph, and the pH of read_ec_ph) yields
\* the raw register value divided by 10: ten times the pH is the raw value;
\* raw 250 yields 25.0 (250/10) and raw 68 yields 6.8 (68/10).
C12_PhIsRawOverTen ==
    (op \in {"read_ph", "read_ec_ph"} /\ Accepted) =>
        /\ PhField.some
        /\ 10 * PhField.num = PhRaw * PhField.den
        /\ PhRaw = 250 => (PhField.num = 250 /\ PhField.den = 10)
        /\ PhRaw = 68 => (PhField.num = 68 /\ PhField.den = 10)

C12_Witness ==
    /\ op = "read_ph" /\ Accepted
    /\ ret.bytes[4] = 0 /\ ret.bytes[5] = 68
    /\ result.value = DecVal(68, 10)

\* C13: an accepted NPK response yields nitrogen, phosphorus and potassium as
\* the big-endian words at response bytes 3-4, 5-6 and 7-8, and between two
\* accepted NPK responses a field differs only if its own two bytes differ.
C13_NpkFieldsByOffset ==
    [][(op' = "read_npk" /\ Accepted') =>
          /\ result'.nitrogen = IntVal(RawAt(3)')
          /\ result'.phosphorus = IntVal(RawAt(5)')
          /\ result'.potassium = IntVal(RawAt(7)')
          /\ (op = "read_npk" /\ Accepted) =>
                /\ RawAt(3)' = RawAt(3) => result'.nitrogen = result.nitrogen
                /\ RawAt(5)' = RawAt(5) => result'.phosphorus = result.phosphorus
                /\ RawAt(7)' = RawAt(7) => result'.potassium = result.potassium]_vars

C13_Witness ==
    /\ op = "read_npk" /\ Accepted
    /\ SubSeq(ret.bytes, 4, 9) = <<0, 100, 3, 232, 0, 100>>
    /\ result = [nitrogen |-> IntVal(100), phosphorus |-> IntVal(1000),
                 potassium |-> IntVal(100)]

\* C14: an accepted EC/pH response yields EC from response bytes 7-8 and pH
\* from bytes 9-10, and two accepted responses that agree on those four bytes
\* yield the same result whatever their four leading data bytes are.
C14_EcPhSkipsLeadingWords ==
    [][(op' = "read_ec_ph" /\ Accepted') =>
          /\ result'.ec = IntVal(RawAt(7)')
          /\ result'.ph = DecVal(RawAt(9)', 10)
          /\ (/\ op = "read_ec_ph" /\ Accepted
              /\ SubSeq(ret.bytes, 8, 11) = SubSeq(ret'.bytes, 8, 11))
                => result' = result]_vars

\* leading words 1000, 1000 and EC 100, pH raw 100
C14_Witness ==
    /\ op = "read_ec_ph" /\ Accepted
    /\ SubSeq(ret.bytes, 4, 11) = <<3, 232, 3, 232, 0, 100, 0, 100>>
    /\ result = [ec |-> IntVal(100), ph |-> DecVal(100, 10)]

\* C15: send_and_receive(command, n) on an Open session writes the command
\* once, as given, on the session's channel; if the write fails it reads
\* nothing and returns a failure; otherwise it then issues one read for n
\* bytes and returns the bytes that read gave, unchanged (a failure if the
\* read raised). Nothing is read before the write and nothing is repeated.
C15_OneWriteThenOneRead ==
    [][(is_connected /\ op' = "send_and_receive" /\ args'.size # SizeNone) =>
          /\ Len(io') \in {1, 2}
          /\ io'[1].kind = "write"
          /\ io'[1].data = args'.command
          /\ io'[1].handle = serial_conn
          /\ io'[1].raised => (Len(io') = 1 /\ ret' = RetNone)
          /\ ~io'[1].raised =>
                /\ Len(io') = 2
                /\ io'[2].kind = "read"
                /\ io'[2].size = args'.size
                /\ io'[2].handle = serial_conn
                /\ io'[2].raised => ret' = RetNone
                /\ ~io'[2].raised =>
                      /\ io'[2].data = Slice(args'.arrived, 0, args'.size)
                      /\ ret' = RetBytes(io'[2].data)]_vars

\* nine bytes arrived and the one read for seven returned the first seven
C15_Witness ==
    /\ op = "send_and_receive" /\ args.size = 7
    /\ Len(args.arrived) = 9
    /\ io = <<WriteEvent(serial_conn, args.command),
              ReadEvent(serial_conn, 7, <<1, 3, 2, 0, 100, 185, 175>>)>>
    /\ ret = RetBytes(<<1, 3, 2, 0, 100, 185, 175>>)

\* the frames the last call wrote or tried to write, in order
Writes == SelectSeq(io, LAMBDA ev : ev.kind = "write")

\* a value a read may return: None or a number
IsValue(v) == v = NoneVal \/ (v.some /\ v.num \in 0..65535 /\ v.den \in {1, 10})

AllKeys == {"nitrogen", "phosphorus", "potassium", "ec", "ph"}

\* C16: every read returns a value or None for each of its fields and leaves
\* the session as it found it, failed or not, and
\* read_all on an Open session always attempts the NPK exchange and then the
\* EC/pH exchange, whatever became of the first, and returns a mapping with
\* exactly the keys nitrogen, phosphorus, potassium, ec, ph.
C16_ReadAllDoesBothExchanges ==
    [][/\ IsRead' => (UNCHANGED session /\ \A v \in ResultFields' : IsValue(v))
       /\ op' = "read_all" =>
             /\ UNCHANGED session
             /\ DOMAIN result' = AllKeys
             /\ \A k \in AllKeys : IsValue(result'[k])
             /\ is_connected =>
                   /\ Len(Writes') = 2
                   /\ Writes'[1].data = CMD_READ_NPK
                   /\ Writes'[2].data = CMD_READ_EC_PH]_vars

\* a read_all whose NPK exchange timed out and whose EC/pH exchange succeeded
C16_Witness ==
    /\ op = "read_all"
    /\ Len(io) = 4
    /\ io[2].kind = "read" /\ io[2].data = <<>>
    /\ io[3] = WriteEvent(serial_conn, CMD_READ_EC_PH)
    /\ result.nitrogen = NoneVal /\ result.phosphorus = NoneVal
    /\ result.potassium = NoneVal
    /\ result.ec.some /\ result.ph.some

\* C17: after read_response(size, timeout=t) returns, with data, with no data
\* or after a read error, the timeout of the session's channel is the timeout
\* the session was configured with.
C17_TimeoutRestored ==
    (op = "read_response" /\ serial_conn # 0)
        => handles[serial_conn].timeout = timeout

\* the calls of serial.Serial the last call made
Opens == SelectSeq(io, LAMBDA ev : ev.kind = "open")

\* the session was constructed with an explicit port name
ExplicitPort == op = "init" /\ args.port # NoPort

\* C18: constructing the session with an explicit port name calls
\* serial.Serial exactly once, with that port, the configured baud rate and
\* timeout, 8 data bits, no parity and 1 stop bit, always yields a session,
\* and is_connected is true exactly if that call returned an open channel.
C18_OneOpenAttempt ==
    ExplicitPort =>
        /\ Len(Opens) = 1 /\ Len(io) = 1
        /\ Opens[1].channel.port = args.port /\ port = args.port
        /\ Opens[1].channel.baudrate = baudrate
        /\ Opens[1].channel.timeout = timeout
        /\ Opens[1].channel.bytesize = 8
        /\ Opens[1].channel.parity = "N"
        /\ Opens[1].channel.stopbits = 1
        /\ is_connected \in BOOLEAN
        /\ is_connected <=> (~Opens[1].raised /\ Opens[1].channel.is_open)
        /\ is_connected => handles[serial_conn] = Opens[1].channel

\* COM3 opened at 4800 baud with timeout 3
C18_Witness ==
    /\ ExplicitPort
    /\ port = COM3 /\ baudrate = 4800 /\ timeout = 3
    /\ io = <<OpenEvent(1, [is_open |-> TRUE, port |-> COM3, baudrate |-> 4800,
                            bytesize |-> 8, parity |-> "N", stopbits |-> 1,
                            timeout |-> 3])>>
    /\ is_connected

\* the last call made one call of serial.Serial and it returned a channel
Acquired == Len(Opens) = 1 /\ ~Opens[1].raised

\* C19: a connect() on a Closed session (never opened, a connect failed
\* before, or disconnected) leaves it Open if its channel acquisition
\* succeeds and Closed if it fails or is not attempted; a disconnect() on an
\* Open session leaves it Closed.
C19_Lifecycle ==
    [][/\ (op' = "connect" /\ ~is_connected) =>
             /\ is_connected' <=> Acquired'
             /\ ret' = RetBool(is_connected')
       /\ (op' = "disconnect" /\ is_connected) => ~is_connected']_vars

\* a session whose construction failed to open was opened by a later connect()
C19_Witness ==
    /\ op = "connect" /\ Acquired
    /\ is_connected
    /\ serial_conn = 1 /\ Len(handles) = 1
    /\ handles[1].is_open

\* thread c has written its command and its read has not returned yet
InFlight(c) == callers[c].at \in {"sleep", "read_response"}

\* C20: with two threads calling send_and_receive on the same session, at
\* most one exchange is in flight: no thread writes or reads between the write
\* and the end of the read of the other.
C20_OneExchangeInFlight ==
    \A a, b \in Callers : (InFlight(a) /\ InFlight(b)) => a = b

\* C21: for a device id and function code in 0..255 and a register address
\* and count in 0..65535, create_command returns 8 bytes: device id, function
\* code, address high, address low, count high, count low, CRC low, CRC high,
\* the CRC being calculate_crc16 of the first six.
C21_CreateCommandLayout ==
    op = "create_command" =>
        /\ ret.kind = "bytes"
        /\ Len(ret.bytes) = 8
        /\ \A i \in 1..8 : ret.bytes[i] \in 0..255
        /\ ret.bytes[1] = device_id
        /\ ret.bytes[2] = args.function_code
        /\ 256 * ret.bytes[3] + ret.bytes[4] = args.register_address
        /\ 256 * ret.bytes[5] + ret.bytes[6] = args.register_count
        /\ SubSeq(ret.bytes, 7, 8) = calculate_crc16(SubSeq(ret.bytes, 1, 6))
        /\ ret.bytes[7] + 256 * ret.bytes[8] = CrcAcc(SubSeq(ret.bytes, 1, 6), 6)

\* the largest value of every argument
C21_Witness ==
    /\ op = "create_command"
    /\ device_id = 255 /\ args.function_code = 255
    /\ args.register_address = 65535 /\ args.register_count = 65535
    /\ Len(ret.bytes) = 8
    /\ SubSeq(ret.bytes, 1, 6) = <<255, 255, 255, 255, 255, 255>>

\* the transport's answer to the last read has exactly the expected length
FullLength == ret.kind = "bytes" /\ Len(ret.bytes) = ExpectedLength

\* C22: the reads do not verify the response CRC: of two responses of the
\* expected length to the same read that agree on all but their last two
\* bytes, both yield the same result.
C22_CrcIgnored ==
    [][(/\ IsRead /\ op' = op
        /\ FullLength /\ FullLength'
        /\ SubSeq(ret.bytes, 1, ExpectedLength - 2)
              = SubSeq(ret'.bytes, 1, ExpectedLength - 2))
          => result' = result]_vars

\* a response whose last two bytes are not its CRC was decoded
C22_Witness ==
    /\ op = "read_ec" /\ FullLength /\ Accepted
    /\ SubSeq(ret.bytes, 6, 7) = TailB
    /\ result.value = IntVal(1000)
    /\ calculate_crc16(SubSeq(ret.bytes, 1, 5)) # TailB

\* the register count in bytes 4-5 of the request frame the last read sent
CountSent == 256 * args.command[5] + args.command[6]

\* C23: the response length a read passes to send_and_receive, and below
\* which it rejects the response, is 5 + 2 x the register count in bytes 4-5
\* of the request frame it sends: 7 for the single registers, 11 for NPK and
\* 13 for EC/pH.
C23_LengthFromRegisterCount ==
    IsRead =>
        /\ args.size = 5 + 2 * CountSent
        /\ args.size = ExpectedLength
        /\ Wrote => io[1].data = args.command
        /\ Len(io) = 2 => io[2].size = 5 + 2 * CountSent
        /\ (ret.kind = "bytes" /\ Len(ret.bytes) < 5 + 2 * CountSent)
              => \A v \in ResultFields : v = NoneVal
        /\ (/\ ret.kind = "bytes" /\ Len(ret.bytes) = 5 + 2 * CountSent
            /\ ret.bytes[1] = device_id /\ ret.bytes[2] = 3)
              => \A v \in ResultFields : v.some

\* an NPK response of exactly 11 bytes, accepted
C23_Witness ==
    /\ op = "read_npk" /\ Accepted
    /\ CountSent = 3 /\ args.size = 11
    /\ io[2].size = 11 /\ Len(ret.bytes) = 11
    /\ result.nitrogen.some

\* the platform's naming convention of RS-485 adapters
Conventional(name) ==
    IF system = "Windows"
    THEN Contains(<<"C", "O", "M">>, name)
    ELSE \E sub \in {<<"t", "t", "y", "U", "S", "B">>, <<"t", "t", "y", "A", "M", "A">>,
                     <<"t", "t", "y", "S">>} : Contains(sub, name)

\* the positions of the enumerated ports that follow the convention
Candidates == {i \in DOMAIN available_ports : Conventional(available_ports[i])}

\* the session was constructed with no port
AutoDiscovery == op = "init" /\ args.port = NoPort

\* C24: a session created with no port selects the first enumerated port whose
\* name follows the platform convention and calls serial.Serial for that one
\* only; if none follows it, serial.Serial is not called and the session is
\* Closed with no port set.
C24_FirstConventionalPort ==
    AutoDiscovery =>
        IF Candidates = {}
        THEN io = <<>> /\ ~is_connected /\ port = NoPort /\ serial_conn = 0
        ELSE \E i \in Candidates :
                /\ \A j \in Candidates : i <= j
                /\ port = available_ports[i]
                /\ Len(io) = 1 /\ Len(Opens) = 1
                /\ Opens[1].channel.port = available_ports[i]
                /\ is_connected <=> ~Opens[1].raised

\* ttyS0 is enumerated before ttyUSB0 and after ttyACM0: ttyS0 is opened
C24_Witness ==
    /\ AutoDiscovery
    /\ available_ports = <<ttyACM0, ttyS0, ttyUSB0>>
    /\ port = ttyS0
    /\ Len(io) = 1 /\ io[1].channel.port = ttyS0 /\ ~io[1].raised
    /\ is_connected

\* C25: in every state reached by construction, connect, disconnect,
\* send_command, read_response and send_and_receive, is_connected is true
\* exactly if serial_conn refers to a channel that is open.
C25_ConnectedIffOpen ==
    is_connected <=> (serial_conn # 0 /\ handles[serial_conn].is_open)

Transfers == {"send_command", "read_response", "send_and_receive"}

\* C26: send_command, read_response and send_and_receive leave is_connected,
\* port, baudrate and the channel held as they were, and open or close no
\* channel, whether they succeed, time out or hit an I/O error.
C26_TransfersKeepSession ==
    [][op' \in Transfers =>
          /\ UNCHANGED <<is_connected, port, baudrate, serial_conn>>
          /\ DOMAIN handles' = DOMAIN handles
          /\ \A i \in DOMAIN handles :
                /\ handles'[i].is_open = handles[i].is_open
                /\ handles'[i].port = handles[i].port
                /\ handles'[i].baudrate = handles[i].baudrate]_vars

\* a send_and_receive whose read raised left the session Open on its channel
C26_Witness ==
    /\ op = "send_and_receive"
    /\ Len(io) = 2 /\ io[2].kind = "read" /\ io[2].raised
    /\ ret = RetNone
    /\ is_connected /\ serial_conn # 0 /\ handles[serial_conn].is_open

\* every field of the last result is None, or every field is a number
AllOrNothing ==
    \/ \A k \in DOMAIN result : result[k] = NoneVal
    \/ \A k \in DOMAIN result : result[k].some

\* C27: read_npk returns a mapping with exactly the keys nitrogen,
\* phosphorus, potassium and read_ec_ph one with exactly the keys ec, ph, and
\* in it all fields are None or all are decoded values, never a mixture.
C27_GroupAllOrNothing ==
    /\ op = "read_npk" =>
          (DOMAIN result = {"nitrogen", "phosphorus", "potassium"} /\ AllOrNothing)
    /\ op = "read_ec_ph" => (DOMAIN result = {"ec", "ph"} /\ AllOrNothing)

\* an NPK response one byte short, carrying all six data bytes: nothing decoded
C27_Witness ==
    /\ op = "read_npk"
    /\ ret.kind = "bytes" /\ Len(ret.bytes) = 10
    /\ ret.bytes[1] = device_id /\ ret.bytes[2] = 3
    /\ result = [nitrogen |-> NoneVal, phosphorus |-> NoneVal, potassium |-> NoneVal]

\* the accumulator of calculate_crc16(m) after "crc ^= byte" on byte k and
\* after each of the 8 rounds that follow
AccumulatorSteps(m, k) ==
    {CrcShift(Xor(CrcAcc(m, k - 1), m[k]), n) : n \in 0..8}

\* C28: for every byte sequence m, the accumulator of calculate_crc16(m) is
\* within 0..0xFFFF at every step, the result has 2 bytes, and
\* calculate_crc16 of m followed by that result is 00 00.
C28_CrcRangeAndResidue ==
    op = "calculate_crc16" =>
        /\ \A k \in 1..Len(args.command) :
              \A acc \in AccumulatorSteps(args.command, k) : acc \in 0..65535
        /\ Len(ret.bytes) = 2
        /\ \A i \in 1..2 : ret.bytes[i] \in 0..255
        /\ calculate_crc16(args.command \o ret.bytes) = <<0, 0>>

\* the CRC of FF FF, and after it the residue 00 00
C28_Witness ==
    /\ op = "calculate_crc16"
    /\ args.command = <<255, 255>>
    /\ Len(ret.bytes) = 2
    /\ calculate_crc16(<<255, 255>> \o ret.bytes) = <<0, 0>>

====
